---------------------------- MODULE Spec2Model ----------------------------
(***************************************************************************)
(* Address-resolution engine of Country-validation (src/b-mongo/server.js, *)
(* the handlers of lines 184-412).                                         *)
(* and of the address form that calls it                                   *)
(* (src/f-mongo/src/pages/AddressValidator.tsx).                           *)
(*                                                                         *)
(* Conventions.                                                            *)
(*  - A JavaScript string is a sequence of characters; a character is a    *)
(*    one-letter string, or "Uxxxx" for a code point outside ASCII.        *)
(*  - undefined is the value Undefined.                                    *)
(*  - null / an absent field is the empty sequence <<>>, a present value v *)
(*    is <<v>>.                                                            *)
(*  - A point is <<lng, lat>> as in GeoJSON, in units of 30 degrees; a     *)
(*    distance on the sphere is in units of R*pi/6 metres (the arc of 30   *)
(*    degrees), so that haversine is exact on the points used.             *)
(*  - A JavaScript number computed from those is an exact rational         *)
(*    [n, d] (d > 0, lowest terms), [n |-> +-1, d |-> 0] for +-Infinity    *)
(*    and [n |-> 0, d |-> 0] for NaN.                                      *)
(***************************************************************************)
EXTENDS Integers, Sequences, FiniteSets, TLC

VARIABLES
    places,     \* collection "places" of the dataset: sequence of [name, loc]
    roads,      \* collection "roads": sequence of [name, path, near]
    db,         \* the module variable db: "undefined" while client.connect() is
                \* pending, "connected" once set, "failed" (still undefined)
                \* once client.connect() has rejected
    pc,         \* position of the validate-address handler
    req,        \* req.body of the request being handled
    place,      \* the place document found (<<>> before)
    road,       \* the road document found (<<>> before, and for null)
    data,       \* the provider's data received (<<>> before)
    err,        \* whether a catch block has caught an exception
    res,        \* the response sent: <<>> or <<[status, body]>>
    nQueries,   \* dataset queries issued for this request
    nFetch,     \* remote-provider calls issued for this request
    interp,     \* the call of interpolateHouseNumber made for this request
    sug,        \* the handler of GET /api/cities or /api/streets in progress:
                \* its position, req.query, its locals and its response
    prev,       \* history: the body and the response of an earlier request
    form        \* the address form in the browser: its React state, its pending
                \* timers and requests, and the time

vars == <<places, roads, db, pc, req, place, road, data, err, res, nQueries, nFetch, interp,
          sug, prev, form>>

-----------------------------------------------------------------------------
(* Bounds of the model *)

MaxLines == 2       \* polylines in a road's geometry
MaxPathPts == 4     \* points in a road's geometry, over all its polylines
NumPlaces == 11     \* places of one prefix in the dataset of the suggestions
NumRoads == 12      \* roads of one stem around those places
MaxActions == 4     \* actions of the user on the address form
MaxTicks == 4       \* steps of the address form's clock
TickMs == 100       \* milliseconds in a step of that clock

-----------------------------------------------------------------------------
(* JavaScript values *)

Undefined == <<"undefined">>

\* A value of req.body that is no string and is truthy (a JSON number such
\* as 5, true, an array, an object)
NotAString == <<"number">>

IsString(v) == v # Undefined /\ v # NotAString

\* !v for a string, undefined or such a value
Falsy(v) == v = Undefined \/ v = <<>>

Abs(x) == IF x < 0 THEN 0 - x ELSE x

RECURSIVE GCD(_, _)
GCD(a, b) == IF b = 0 THEN a ELSE GCD(b, a % b)

NaN == [n |-> 0, d |-> 0]

\* The number n / d of two integers, as JavaScript's division gives it.
Div(n, d) ==
    IF d = 0 THEN [n |-> (IF n > 0 THEN 1 ELSE IF n < 0 THEN 0 - 1 ELSE 0), d |-> 0]
    ELSE LET s == IF d < 0 THEN 0 - 1 ELSE 1
             g == GCD(Abs(n), Abs(d))
         IN  [n |-> (s * n) \div g, d |-> (s * d) \div g]

Num(k) == [n |-> k, d |-> 1]

IsFinite(x) == x.d # 0

\* a + r * k for integers a, k and a number r
AddMul(a, r, k) ==
    IF r.d = 0
    THEN (IF r.n = 0 \/ k = 0 THEN NaN
          ELSE [n |-> (IF k > 0 THEN r.n ELSE 0 - r.n), d |-> 0])
    ELSE Div(a * r.d + r.n * k, r.d)

-----------------------------------------------------------------------------
(* Characters *)

LatinUpper == <<"A","B","C","D","E","F","G","H","I","J","K","L","M",
                "N","O","P","Q","R","S","T","U","V","W","X","Y","Z">>
LatinLower == <<"a","b","c","d","e","f","g","h","i","j","k","l","m",
                "n","o","p","q","r","s","t","u","v","w","x","y","z">>
Digits == <<"0","1","2","3","4","5","6","7","8","9">>

\* The range U+10D0 .. U+10F0 of the character class of normalize
GeorgianRange ==
    {"U10D0","U10D1","U10D2","U10D3","U10D4","U10D5","U10D6","U10D7",
     "U10D8","U10D9","U10DA","U10DB","U10DC","U10DD","U10DE","U10DF",
     "U10E0","U10E1","U10E2","U10E3","U10E4","U10E5","U10E6","U10E7",
     "U10E8","U10E9","U10EA","U10EB","U10EC","U10ED","U10EE","U10EF",
     "U10F0"}

Range(s) == {s[i] : i \in DOMAIN s}

IsUpper(c) == c \in Range(LatinUpper)
IsDigit(c) == c \in Range(Digits)
DigitValue(c) == (CHOOSE i \in DOMAIN Digits : Digits[i] = c) - 1

LowerChar(c) ==
    IF IsUpper(c) THEN LatinLower[CHOOSE i \in DOMAIN LatinUpper : LatinUpper[i] = c]
    ELSE c

\* String.prototype.toLowerCase
toLowerCase(str) == [i \in DOMAIN str |-> LowerChar(str[i])]

IsSpace(c) == c = " "

\* A lone surrogate (the JSON text "\ud800" parses to one): a string that
\* holds one is not well formed, and encodeURIComponent throws a URIError
\* on it.
LoneSurrogate == "UD800"

IsWellFormed(v) == ~IsString(v) \/ \A i \in DOMAIN v : v[i] # LoneSurrogate

\* String.prototype.trim
RECURSIVE trim(_)
trim(str) ==
    IF str = <<>> THEN str
    ELSE IF IsSpace(Head(str)) THEN trim(Tail(str))
    ELSE IF IsSpace(str[Len(str)]) THEN trim(SubSeq(str, 1, Len(str) - 1))
    ELSE str

InNormalizeClass(c) ==
    c \in Range(LatinLower) \/ IsDigit(c) \/ c \in GeorgianRange

\* A normalize that forgets toLowerCase
normalizeNoLowerCase(str) ==
    IF str = Undefined THEN <<>>
    ELSE SelectSeq(trim(str), InNormalizeClass)

\* normalize: str?.toLowerCase().trim().replace(/[^a-z0-9<U10D0>-<U10F0>]/g, "") || ""
normalize(str) ==
    IF str = Undefined THEN <<>>
    ELSE SelectSeq(trim(toLowerCase(str)), InNormalizeClass)

georgia == <<"g","e","o","r","g","i","a">>
sakartvelo == <<"s","a","k","a","r","t","v","e","l","o">>
saqartveloKa ==
    <<"U10E1","U10D0","U10E5","U10D0","U10E0","U10D7","U10D5","U10D4","U10DA","U10DD">>

isGeorgia(country) == normalize(country) \in {saqartveloKa, georgia, sakartvelo}

-----------------------------------------------------------------------------
(* Regular expressions: escapeRegex and the patterns the queries build *)

RegexSpecials ==
    {"/", "-", "\\", "^", "$", "*", "+", "?", ".", "(", ")", "|", "[", "]", "{", "}"}

\* An escapeRegex that escapes nothing
escapeRegexNothing(string) == string

\* escapeRegex: string.replace(/[/\-\\^$*+?.()|[\]{}]/g, '\\$&')
RECURSIVE escapeRegex(_)
escapeRegex(string) ==
    IF string = <<>> THEN <<>>
    ELSE (IF Head(string) \in RegexSpecials THEN <<"\\", Head(string)>>
          ELSE <<Head(string)>>) \o escapeRegex(Tail(string))

\* The atoms of a pattern source without quantifiers, classes or groups:
\* an escaped character is a literal, "." is any character, "^" and "$"
\* are the anchors.
RECURSIVE Atoms(_)
Atoms(source) ==
    IF source = <<>> THEN <<>>
    ELSE IF Head(source) = "\\" /\ Len(source) >= 2
         THEN <<[kind |-> "lit", ch |-> source[2]]>> \o Atoms(SubSeq(source, 3, Len(source)))
    ELSE IF Head(source) = "." THEN <<[kind |-> "any", ch |-> "."]>> \o Atoms(Tail(source))
    ELSE IF Head(source) = "^" THEN <<[kind |-> "bol", ch |-> "^"]>> \o Atoms(Tail(source))
    ELSE IF Head(source) = "$" THEN <<[kind |-> "eol", ch |-> "$"]>> \o Atoms(Tail(source))
    ELSE <<[kind |-> "lit", ch |-> Head(source)]>> \o Atoms(Tail(source))

\* Whether the atoms match string s from position pos on (flag "i").
RECURSIVE MatchFrom(_, _, _)
MatchFrom(atoms, s, pos) ==
    IF atoms = <<>> THEN TRUE
    ELSE LET a == Head(atoms) IN
         CASE a.kind = "bol" -> pos = 1 /\ MatchFrom(Tail(atoms), s, pos)
           [] a.kind = "eol" -> pos = Len(s) + 1 /\ MatchFrom(Tail(atoms), s, pos)
           [] a.kind = "any" -> pos <= Len(s) /\ MatchFrom(Tail(atoms), s, pos + 1)
           [] a.kind = "lit" -> /\ pos <= Len(s)
                                /\ LowerChar(s[pos]) = LowerChar(a.ch)
                                /\ MatchFrom(Tail(atoms), s, pos + 1)

\* new RegExp(source, "i").test(s)
RegExpTestI(source, s) ==
    \E pos \in 1..(Len(s) + 1) : MatchFrom(Atoms(source), s, pos)

\* { name: { $regex: new RegExp(`^${escapeRegex(text)}$`, "i") } }
NameIs(text, name) == RegExpTestI(<<"^">> \o escapeRegex(text) \o <<"$">>, name)

-----------------------------------------------------------------------------
(* The dataset queries *)

SetMin(S) == CHOOSE x \in S : \A y \in S : x <= y

\* db.collection("places").findOne({ name: ... }): the first match in
\* natural order, or null.
findOnePlace(city) ==
    LET hits == {i \in DOMAIN places : NameIs(city, places[i].name)}
    IN  IF hits = {} THEN <<>> ELSE <<places[SetMin(hits)]>>

\* A query by name alone, without $near
roadQueryNoRadius(street, pl) ==
    {i \in DOMAIN roads : NameIs(street, roads[i].name)}

\* A query with a radius of 3 km
roadQueryShortRadius(street, pl) ==
    {i \in DOMAIN roads : NameIs(street, roads[i].name) /\ roads[i].near[pl.id] <= 3000}

\* The roads the query of the handler matches: name, and $near with
\* $maxDistance 30000 around the place ([near] is the distance in metres
\* the 2dsphere index finds between the road's geometry and each place).
roadQuery(street, pl) ==
    {i \in DOMAIN roads : NameIs(street, roads[i].name) /\ roads[i].near[pl.id] <= 30000}

\* db.collection("roads").findOne(query): $near sorts by distance, so the
\* nearest match (any of them when several are equally near), or null.
findOneRoad(street, pl) ==
    LET hits == roadQuery(street, pl)
    IN  IF hits = {} THEN {<<>>}
        ELSE {<<roads[i]>> : i \in {j \in hits :
                 \A k \in hits : roads[j].near[pl.id] <= roads[k].near[pl.id]}}

-----------------------------------------------------------------------------
(* Geometry: haversine and interpolateHouseNumber *)

\* The points of the model, <<lng, lat>> in units of 30 degrees: two points
\* of the equator and the north pole.
PtA == <<0, 0>>
PtB == <<2, 0>>
Pole == <<0, 3>>
Points == {PtA, PtB, Pole}

\* haversine(lat1, lon1, lat2, lon2), in units of R*pi/6, where the formula
\* a = sin^2(dLat/2) + cos(lat1) cos(lat2) sin^2(dLon/2),
\* R * 2 * atan2(sqrt(a), sqrt(1 - a)) has a closed form:
\*   equal points: a = 0, the distance is 0;
\*   one point at a pole (cos = 0) or both on one meridian (dLon = 0):
\*     a = sin^2(dLat/2), the distance is |dLat|;
\*   both on the equator (dLat = 0, cos = 1): a = sin^2(dLon/2), the
\*     distance is |dLon| (at most a half turn here).
haversine(lat1, lon1, lat2, lon2) ==
    CASE lat1 = lat2 /\ lon1 = lon2 -> 0
      [] (lat1 # lat2 \/ lon1 # lon2)
         /\ (Abs(lat1) = Pole[2] \/ Abs(lat2) = Pole[2] \/ lon1 = lon2) -> Abs(lat2 - lat1)
      [] lon1 # lon2 /\ lat1 = 0 /\ lat2 = 0 -> Abs(lon2 - lon1)

\* The segments of one polyline: for (let i = 0; i < line.length - 1; i++)
LineSegments(line) ==
    IF Len(line) < 2 THEN <<>>
    ELSE [i \in 1..(Len(line) - 1) |->
            [p1 |-> line[i], p2 |-> line[i + 1],
             dist |-> haversine(line[i][2], line[i][1], line[i + 1][2], line[i + 1][1])]]

\* The array segments after the first loop (the field start is
\* totalLength - dist, the sum of the lengths before).
RECURSIVE Segments(_)
Segments(path) ==
    IF path = <<>> THEN <<>> ELSE LineSegments(Head(path)) \o Segments(Tail(path))

RECURSIVE SumDist(_)
SumDist(segments) ==
    IF segments = <<>> THEN 0 ELSE Head(segments).dist + SumDist(Tail(segments))

Null == [tag |-> "null", lat |-> NaN, lng |-> NaN]
Thrown == [tag |-> "TypeError", lat |-> NaN, lng |-> NaN]
PointAt(lat, lng) == [tag |-> "point", lat |-> lat, lng |-> lng]

\* A walk with > in place of >=
RECURSIVE WalkStrict(_, _, _, _, _)
WalkStrict(path, segments, accumulated, houseNumber, totalLength) ==
    IF segments = <<>>
    THEN LET last == path[Len(path)] IN
         IF last = <<>> THEN Thrown
         ELSE PointAt(Num(last[Len(last)][2]), Num(last[Len(last)][1]))
    ELSE LET seg == Head(segments) IN
         IF 1000 * (accumulated + seg.dist) > houseNumber * totalLength
         THEN LET ratio == Div(houseNumber * totalLength - 1000 * accumulated,
                               1000 * seg.dist)
              IN  PointAt(AddMul(seg.p1[2], ratio, seg.p2[2] - seg.p1[2]),
                          AddMul(seg.p1[1], ratio, seg.p2[1] - seg.p1[1]))
         ELSE WalkStrict(path, Tail(segments), accumulated + seg.dist, houseNumber,
                         totalLength)

\* A walk whose ratio forgets the length walked so far
RECURSIVE WalkNoOffset(_, _, _, _, _)
WalkNoOffset(path, segments, accumulated, houseNumber, totalLength) ==
    IF segments = <<>>
    THEN LET last == path[Len(path)] IN
         IF last = <<>> THEN Thrown
         ELSE PointAt(Num(last[Len(last)][2]), Num(last[Len(last)][1]))
    ELSE LET seg == Head(segments) IN
         IF 1000 * (accumulated + seg.dist) >= houseNumber * totalLength
         THEN LET ratio == Div(houseNumber * totalLength, 1000 * seg.dist)
              IN  PointAt(AddMul(seg.p1[2], ratio, seg.p2[2] - seg.p1[2]),
                          AddMul(seg.p1[1], ratio, seg.p2[1] - seg.p1[1]))
         ELSE WalkNoOffset(path, Tail(segments), accumulated + seg.dist, houseNumber,
                           totalLength)

\* The second loop and the lines after it. targetDistance is
\* houseNumber * totalLength / 1000; accumulated + seg.dist >= targetDistance
\* is compared after multiplying both sides by 1000.
RECURSIVE Walk(_, _, _, _, _)
Walk(path, segments, accumulated, houseNumber, totalLength) ==
    IF segments = <<>>
    THEN LET last == path[Len(path)] IN
         IF last = <<>> THEN Thrown   \* last[last.length - 1] is undefined
         ELSE PointAt(Num(last[Len(last)][2]), Num(last[Len(last)][1]))
    ELSE LET seg == Head(segments) IN
         IF 1000 * (accumulated + seg.dist) >= houseNumber * totalLength
         THEN LET ratio == Div(houseNumber * totalLength - 1000 * accumulated,
                               1000 * seg.dist)
              IN  PointAt(AddMul(seg.p1[2], ratio, seg.p2[2] - seg.p1[2]),
                          AddMul(seg.p1[1], ratio, seg.p2[1] - seg.p1[1]))
         ELSE Walk(path, Tail(segments), accumulated + seg.dist, houseNumber, totalLength)

\* An interpolation without the test of totalLength
interpolateNoZeroCheck(path, houseNumber) ==
    Walk(path, Segments(path), 0, houseNumber, SumDist(Segments(path)))

interpolateHouseNumber(path, houseNumber) ==
    LET segments == Segments(path)
        totalLength == SumDist(segments)
    IN  IF totalLength = 0 THEN Null
        ELSE Walk(path, segments, 0, houseNumber, totalLength)

\* parseInt(houseNumber.replace(/\D/g, ""), 10): NaN, or Num(k)
RECURSIVE DecimalValue(_)
DecimalValue(digits) ==
    IF digits = <<>> THEN 0
    ELSE 10 * DecimalValue(SubSeq(digits, 1, Len(digits) - 1))
         + DigitValue(digits[Len(digits)])

parseHouseNumber(houseNumber) ==
    LET digits == SelectSeq(houseNumber, IsDigit)
    IN  IF digits = <<>> THEN NaN ELSE Num(DecimalValue(digits))

\* points: path.forEach((line) => line.forEach((pt) => points.push(pt)))
RECURSIVE FlatPoints(_)
FlatPoints(path) ==
    IF path = <<>> THEN <<>> ELSE Head(path) \o FlatPoints(Tail(path))

RECURSIVE SumAxis(_, _)
SumAxis(points, axis) ==
    IF points = <<>> THEN 0 ELSE Head(points)[axis] + SumAxis(Tail(points), axis)

\* A centroid that divides by the number of polylines
centroidByLines(path) ==
    LET points == FlatPoints(path)
    IN  [lat |-> Div(SumAxis(points, 2), Len(path)),
         lng |-> Div(SumAxis(points, 1), Len(path))]

\* The centroid fallback: { lat: sumLat / points.length, lng: sumLng / points.length }
centroid(path) ==
    LET points == FlatPoints(path)
    IN  [lat |-> Div(SumAxis(points, 2), Len(points)),
         lng |-> Div(SumAxis(points, 1), Len(points))]

-----------------------------------------------------------------------------
(* Responses of POST /api/validate-address *)

\* The message templates of the handler, by what they say, with the
\* request fields they interpolate.
Msg(text, city, street, houseNumber) ==
    [text |-> text, city |-> city, street |-> street, houseNumber |-> houseNumber]

Failure(status, message) ==
    <<[status |-> status,
       body |-> [success |-> FALSE, message |-> message, source |-> <<>>,
                 coords |-> <<>>, path |-> <<>>, interpolated |-> <<>>,
                 formatted_address |-> <<>>]]>>

\* res.status(400).json({ success: false, message: <all fields are required> })
MissingFieldResponse == Failure(400, Msg("AllFieldsRequired", <<>>, <<>>, <<>>))

\* res.json({ success: false, message: <city "${city}" was not found> })
CityNotFoundResponse(city) == Failure(200, Msg("CityNotFound", city, <<>>, <<>>))

\* res.json({ success: false, message: <street "${street}" is not near ${city} (within 30 km)> })
StreetNotNearResponse(street, city) ==
    Failure(200, Msg("StreetNotWithin30km", city, street, <<>>))

\* catch (err): res.status(500).json({ success: false, message: "MongoDB <error>" })
MongoErrorResponse == Failure(500, Msg("MongoDBError", <<>>, <<>>, <<>>))

\* res.json({ success: false, message: <address not found (Google)> })
GoogleNotFoundResponse == Failure(200, Msg("AddressNotFoundGoogle", <<>>, <<>>, <<>>))

\* catch (err): res.status(500).json({ success: false, message: "Google API <error>" })
GoogleErrorResponse == Failure(500, Msg("GoogleAPIError", <<>>, <<>>, <<>>))

\* The success response of the Google branch
GoogleSuccessResponse(result) ==
    <<[status |-> 200,
       body |-> [success |-> TRUE,
                 message |-> Msg("AddressValidGoogle", <<>>, <<>>, <<>>),
                 source |-> <<"Google">>,
                 coords |-> <<result.location>>, path |-> <<>>, interpolated |-> <<>>,
                 formatted_address |-> <<result.formatted_address>>]]>>

\* The call of interpolateHouseNumber the handler makes for the road's path and
\* req.body.houseNumber: <<>> when it makes none.
interpolationCall(path, houseNumber) ==
    IF /\ ~Falsy(houseNumber) /\ Len(path) > 0
       /\ IsString(houseNumber) /\ IsFinite(parseHouseNumber(houseNumber))
    THEN <<[path |-> path, houseNumber |-> parseHouseNumber(houseNumber).n,
            ret |-> interpolateHouseNumber(path, parseHouseNumber(houseNumber).n)]>>
    ELSE <<>>

\* houseNumber.replace is not a function: line 301 throws a TypeError
ReplaceThrows(path, houseNumber) ==
    ~Falsy(houseNumber) /\ Len(path) > 0 /\ ~IsString(houseNumber)

\* Lines 296-326: the response once a road is found (a TypeError thrown by
\* line 301 or by interpolateHouseNumber lands in the catch block).
RoadFoundResponse(doc, city, street, houseNumber) ==
    LET call == interpolationCall(doc.path, houseNumber)
        finalCoords ==
            IF call # <<>> /\ call[1].ret.tag = "point"
            THEN [lat |-> call[1].ret.lat, lng |-> call[1].ret.lng]
            ELSE centroid(doc.path)
    IN  IF ReplaceThrows(doc.path, houseNumber) THEN MongoErrorResponse
        ELSE IF call # <<>> /\ call[1].ret.tag = "TypeError" THEN MongoErrorResponse
        ELSE <<[status |-> 200,
                body |-> [success |-> TRUE,
                          message |-> Msg("AddressValid", city, street,
                                          IF Falsy(houseNumber) THEN <<>> ELSE houseNumber),
                          source |-> <<"MongoDB">>,
                          coords |-> <<finalCoords>>,
                          path |-> <<doc.path>>,
                          interpolated |-> IF Falsy(houseNumber) THEN <<>> ELSE <<finalCoords>>,
                          formatted_address |-> <<>>]]>>

-----------------------------------------------------------------------------
(* The handler of POST /api/validate-address, one action per step between awaits *)

\* connectDB: client.connect() resolved, db is set.
ConnectDB ==
    /\ db = "undefined"
    /\ db' = "connected"
    /\ UNCHANGED <<places, roads, pc, req, place, road, data, err, res, nQueries, nFetch, interp>>
    /\ UNCHANGED <<sug, prev, form>>

\* connectDB: client.connect() rejects (the dataset is unreachable). db stays
\* undefined. connectDB() of line 193 has no catch, so the rejection is
\* unhandled: the runtime either only warns, or terminates the process, and
\* then a handler that is awaiting never responds and no request is served
\* any more.
ConnectRejected ==
    /\ db = "undefined"
    /\ db' = "failed"
    /\ \E exits \in BOOLEAN : pc' = (IF exits THEN "Exited" ELSE pc)
    /\ UNCHANGED <<places, roads, req, place, road, data, err, res, nQueries, nFetch, interp>>
    /\ UNCHANGED <<sug, prev, form>>

\* A validation that forgets the street
MissingFieldNoStreet(body) == Falsy(body.country) \/ Falsy(body.city)

\* if (!country || !city || !street)
MissingField(body) == Falsy(body.country) \/ Falsy(body.city) \/ Falsy(body.street)

\* A request arrives: validation, classification, and the first call.
Receive(body) ==
    /\ pc = "Idle"
    /\ req' = <<body>>
    /\ UNCHANGED <<place, road, data, interp>>
    /\ IF MissingField(body)
       THEN /\ res' = MissingFieldResponse
            /\ pc' = "Done"
            /\ UNCHANGED <<err, nQueries, nFetch>>
       ELSE IF ~IsString(body.country)
       THEN \* str?.toLowerCase is not a function: isGeorgia throws a TypeError
            \* before the try block, the handler's promise rejects and the
            \* handler sends no response
            /\ pc' = "Rejected"
            /\ UNCHANGED <<res, err, nQueries, nFetch>>
       ELSE IF isGeorgia(body.country)
       THEN IF db # "connected" \/ ~IsString(body.city)
            THEN \* db.collection, or escapeRegex(city) (string.replace is not
                 \* a function), throws a TypeError inside the try block
                 /\ res' = MongoErrorResponse
                 /\ err' = TRUE
                 /\ pc' = "Done"
                 /\ UNCHANGED <<nQueries, nFetch>>
            ELSE /\ pc' = "AwaitPlace"
                 /\ nQueries' = nQueries + 1
                 /\ UNCHANGED <<res, err, nFetch>>
       ELSE IF \E f \in {body.street, body.houseNumber, body.city, body.country} :
                    ~IsWellFormed(f)
       THEN \* encodeURIComponent(fullAddress) throws a URIError before the
            \* try block
            /\ pc' = "Rejected"
            /\ UNCHANGED <<res, err, nQueries, nFetch>>
       ELSE /\ pc' = "AwaitFetch"
            /\ nFetch' = nFetch + 1
            /\ UNCHANGED <<res, err, nQueries>>
    /\ UNCHANGED <<places, roads, db, sug, prev, form>>

\* await places.findOne(...) settles: it rejects, or gives the place or null.
PlaceReply ==
    /\ pc = "AwaitPlace"
    /\ \E rejected \in BOOLEAN :
          LET found == findOnePlace(req[1].city) IN
          IF rejected
          THEN /\ res' = MongoErrorResponse
               /\ err' = TRUE
               /\ pc' = "Done"
               /\ UNCHANGED <<place, nQueries>>
          ELSE IF found = <<>>
          THEN /\ res' = CityNotFoundResponse(req[1].city)
               /\ pc' = "Done"
               /\ UNCHANGED <<place, err, nQueries>>
          ELSE IF ~IsString(req[1].street)
          THEN \* escapeRegex(street) throws a TypeError while the query is built
               /\ place' = found
               /\ res' = MongoErrorResponse
               /\ err' = TRUE
               /\ pc' = "Done"
               /\ UNCHANGED nQueries
          ELSE /\ place' = found
               /\ pc' = "AwaitRoad"
               /\ nQueries' = nQueries + 1
               /\ UNCHANGED <<res, err>>
    /\ UNCHANGED <<places, roads, db, req, road, data, nFetch, interp, sug, prev, form>>

\* await roads.findOne(query) settles: it rejects, or gives the road or null;
\* then the rest of the try block runs.
RoadReply ==
    /\ pc = "AwaitRoad"
    /\ \E rejected \in BOOLEAN : \E found \in findOneRoad(req[1].street, place[1]) :
          IF rejected
          THEN /\ res' = MongoErrorResponse
               /\ err' = TRUE
               /\ UNCHANGED <<road, interp>>
          ELSE IF found = <<>>
          THEN /\ res' = StreetNotNearResponse(req[1].street, req[1].city)
               /\ UNCHANGED <<road, err, interp>>
          ELSE /\ road' = found
               /\ interp' = interpolationCall(found[1].path, req[1].houseNumber)
               /\ res' = RoadFoundResponse(found[1], req[1].city, req[1].street,
                                           req[1].houseNumber)
               /\ err' = (res' = MongoErrorResponse)
    /\ pc' = "Done"
    /\ UNCHANGED <<places, roads, db, req, place, data, nQueries, nFetch, sug, prev, form>>

\* What fetch(url) and response.json() can give: a rejection, or the
\* provider's data.
GoogleResult == [formatted_address |-> "formatted", location |-> [lat |-> Num(1), lng |-> Num(2)]]

ProviderReplies ==
    {[rejected |-> TRUE, status |-> "", results |-> <<>>],
     [rejected |-> FALSE, status |-> "ZERO_RESULTS", results |-> <<>>],
     [rejected |-> FALSE, status |-> "REQUEST_DENIED", results |-> <<GoogleResult>>],
     [rejected |-> FALSE, status |-> "OK", results |-> <<>>],
     [rejected |-> FALSE, status |-> "OK", results |-> <<GoogleResult>>]}

\* A check of the result list alone, not of the status
GoogleResponseNoStatus(reply) ==
    IF Len(reply.results) = 0 THEN GoogleNotFoundResponse
    ELSE GoogleSuccessResponse(reply.results[1])

\* Lines 339-352: the response to the provider's data
GoogleResponse(reply) ==
    IF reply.status # "OK" \/ Len(reply.results) = 0 THEN GoogleNotFoundResponse
    ELSE GoogleSuccessResponse(reply.results[1])

\* await fetch(url), await response.json() settle.
ProviderReply ==
    /\ pc = "AwaitFetch"
    /\ \E reply \in ProviderReplies :
          IF reply.rejected
          THEN /\ res' = GoogleErrorResponse
               /\ err' = TRUE
               /\ UNCHANGED data
          ELSE /\ res' = GoogleResponse(reply)
               /\ data' = <<reply>>
               /\ UNCHANGED err
    /\ pc' = "Done"
    /\ UNCHANGED <<places, roads, db, req, place, road, nQueries, nFetch, interp, sug, prev, form>>

\* A handler that closes the connection when it returns
FinishClosingDB ==
    /\ pc = "Done"
    /\ pc' = "Idle"
    /\ req' = <<>>
    /\ place' = <<>>
    /\ road' = <<>>
    /\ data' = <<>>
    /\ err' = FALSE
    /\ res' = <<>>
    /\ nQueries' = 0
    /\ nFetch' = 0
    /\ interp' = <<>>
    /\ db' = "undefined"
    /\ UNCHANGED <<places, roads, sug, prev, form>>

\* The response has been sent and the handler has returned: the next
\* request starts from a fresh handler invocation.
Finish ==
    /\ pc = "Done"
    /\ pc' = "Idle"
    /\ req' = <<>>
    /\ place' = <<>>
    /\ road' = <<>>
    /\ data' = <<>>
    /\ err' = FALSE
    /\ res' = <<>>
    /\ nQueries' = 0
    /\ nFetch' = 0
    /\ interp' = <<>>
    /\ UNCHANGED <<places, roads, db, sug, prev, form>>

\* An awaited call of the request (a dataset query, the provider call)
\* rejected
LookupFaulted == err /\ (nFetch > 0 \/ (nQueries > 0 /\ road = <<>>))

\* The handler returns as in Finish, and the history keeps the request and
\* its response.
Remember ==
    /\ pc = "Done"
    /\ prev' = <<[body |-> req[1], res |-> res[1], faulted |-> LookupFaulted]>>
    /\ pc' = "Idle"
    /\ req' = <<>>
    /\ place' = <<>>
    /\ road' = <<>>
    /\ data' = <<>>
    /\ err' = FALSE
    /\ res' = <<>>
    /\ nQueries' = 0
    /\ nFetch' = 0
    /\ interp' = <<>>
    /\ UNCHANGED <<places, roads, db, sug, form>>

-----------------------------------------------------------------------------
(* The handlers of GET /api/cities and GET /api/streets *)

\* No suggestion handler is running
SugIdle ==
    [pc |-> "Idle", handler |-> "", city |-> Undefined, q |-> Undefined,
     country |-> Undefined, place |-> <<>>, res |-> <<>>, nQueries |-> 0]

\* .limit(10)
SuggestLimit == 10

\* A cursor without limit
limitNone(docs) == docs

\* cursor.limit(10).toArray()
limit(docs) ==
    SubSeq(docs, 1, IF Len(docs) < SuggestLimit THEN Len(docs) ELSE SuggestLimit)

\* { name: { $regex: new RegExp(`^${escapeRegex(q)}`, "i") } }
NameStartsWith(q, name) == RegExpTestI(<<"^">> \o escapeRegex(q), name)

\* { name: { $regex: new RegExp(escapeRegex(q), "i") } }
NameContains(q, name) == RegExpTestI(escapeRegex(q), name)

\* The documents of a find in natural order
RECURSIVE NaturalOrder(_)
NaturalOrder(hits) ==
    IF hits = {} THEN <<>> ELSE <<SetMin(hits)>> \o NaturalOrder(hits \ {SetMin(hits)})

\* The documents of a find with $near: nearest first (in natural order
\* among the equally near)
RECURSIVE NearestFirst(_, _)
NearestFirst(hits, pl) ==
    IF hits = {} THEN <<>>
    ELSE LET i == CHOOSE i \in hits : \A j \in hits :
                     \/ roads[i].near[pl.id] < roads[j].near[pl.id]
                     \/ roads[i].near[pl.id] = roads[j].near[pl.id] /\ i <= j
         IN  <<i>> \o NearestFirst(hits \ {i}, pl)

\* places.find({ name: ... }).limit(10).project({ name: 1 }).toArray(), then
\* cities.map((c) => c.name)
findCities(q) ==
    LET docs == limit(NaturalOrder({i \in DOMAIN places : NameStartsWith(q, places[i].name)}))
    IN  [k \in DOMAIN docs |-> places[docs[k]].name]

\* roads.find({ name: ..., path: { $near: ... $maxDistance: 30000 } }).limit(10)
\* .project({ name: 1 }).toArray(), then streets.map((s) => s.name)
findStreets(q, pl) ==
    LET docs == limit(NearestFirst({i \in DOMAIN roads :
                        NameContains(q, roads[i].name) /\ roads[i].near[pl.id] <= 30000}, pl))
    IN  [k \in DOMAIN docs |-> roads[docs[k]].name]

\* res.json(names), res.status(500).json([])
SuggestResponse(status, names) == <<[status |-> status, body |-> names]>>

\* q.length < 2 (a value that is no string stands for one whose length is
\* not below 2, such as an array of two strings)
TooShort(q) == IsString(q) /\ Len(q) < 2

\* GET /api/cities: lines 212-216, up to the await
SuggestCities(q, country) ==
    /\ sug.pc = "Idle"
    /\ LET s == [sug EXCEPT !.handler = "cities", !.q = q, !.country = country] IN
       sug' = IF Falsy(q) \/ TooShort(q) \/ ~isGeorgia(country)
              THEN [s EXCEPT !.pc = "Done", !.res = SuggestResponse(200, <<>>)]
              ELSE IF db # "connected" \/ ~IsString(q)
              THEN \* db.collection or escapeRegex(q) throws inside the try block
                   [s EXCEPT !.pc = "Done", !.res = SuggestResponse(500, <<>>)]
              ELSE [s EXCEPT !.pc = "AwaitCities", !.nQueries = 1]
    /\ UNCHANGED <<places, roads, db, pc, req, place, road, data, err, res, nQueries, nFetch, interp>>
    /\ UNCHANGED <<prev, form>>

\* await places.find(...).toArray() settles
CitiesReply ==
    /\ sug.pc = "AwaitCities"
    /\ \E rejected \in BOOLEAN :
          sug' = [sug EXCEPT !.pc = "Done",
                             !.res = IF rejected THEN SuggestResponse(500, <<>>)
                                     ELSE SuggestResponse(200, findCities(sug.q))]
    /\ UNCHANGED <<places, roads, db, pc, req, place, road, data, err, res, nQueries, nFetch, interp>>
    /\ UNCHANGED <<prev, form>>

\* GET /api/streets: lines 230-236, up to the first await
SuggestStreets(city, q, country) ==
    /\ sug.pc = "Idle"
    /\ LET s == [sug EXCEPT !.handler = "streets", !.city = city, !.q = q,
                            !.country = country] IN
       sug' = IF Falsy(city) \/ Falsy(q) \/ TooShort(q) \/ ~isGeorgia(country)
              THEN [s EXCEPT !.pc = "Done", !.res = SuggestResponse(200, <<>>)]
              ELSE IF db # "connected" \/ ~IsString(city)
              THEN [s EXCEPT !.pc = "Done", !.res = SuggestResponse(500, <<>>)]
              ELSE [s EXCEPT !.pc = "AwaitPlace", !.nQueries = 1]
    /\ UNCHANGED <<places, roads, db, pc, req, place, road, data, err, res, nQueries, nFetch, interp>>
    /\ UNCHANGED <<prev, form>>

\* await places.findOne(...) of the streets handler settles: lines 237-239
StreetsPlaceReply ==
    /\ sug.pc = "AwaitPlace"
    /\ \E rejected \in BOOLEAN :
          LET found == findOnePlace(sug.city) IN
          sug' = IF rejected
                 THEN [sug EXCEPT !.pc = "Done", !.res = SuggestResponse(500, <<>>)]
                 ELSE IF found = <<>>
                 THEN [sug EXCEPT !.pc = "Done", !.res = SuggestResponse(200, <<>>)]
                 ELSE IF ~IsString(sug.q)
                 THEN \* escapeRegex(q) throws while the query is built
                      [sug EXCEPT !.pc = "Done", !.place = found,
                                  !.res = SuggestResponse(500, <<>>)]
                 ELSE [sug EXCEPT !.pc = "AwaitStreets", !.place = found, !.nQueries = 2]
    /\ UNCHANGED <<places, roads, db, pc, req, place, road, data, err, res, nQueries, nFetch, interp>>
    /\ UNCHANGED <<prev, form>>

\* await roads.find(...).toArray() settles: line 253
StreetsReply ==
    /\ sug.pc = "AwaitStreets"
    /\ \E rejected \in BOOLEAN :
          sug' = [sug EXCEPT !.pc = "Done",
                             !.res = IF rejected THEN SuggestResponse(500, <<>>)
                                     ELSE SuggestResponse(200, findStreets(sug.q, sug.place[1]))]
    /\ UNCHANGED <<places, roads, db, pc, req, place, road, data, err, res, nQueries, nFetch, interp>>
    /\ UNCHANGED <<prev, form>>

\* The response has been sent and the suggestion handler has returned.
SuggestFinish ==
    /\ sug.pc = "Done"
    /\ sug' = SugIdle
    /\ UNCHANGED <<places, roads, db, pc, req, place, road, data, err, res, nQueries, nFetch, interp>>
    /\ UNCHANGED <<prev, form>>

-----------------------------------------------------------------------------
(* The address form of the browser: src/f-mongo/src/pages/AddressValidator.tsx.
   The record form holds the component's React state (country .. interpolated),
   the timers set by setTimeout and not yet fired, in the order they were set
   (timers), the suggestion requests sent and not yet answered (lookups), the
   validation request sent and not yet answered (validation), the time in
   milliseconds (now), and two history fields: whether the country has been
   changed since handleValidate last ran (sinceCountryChange) and the number
   of the user's actions (nActions). *)

\* The variables of the server, which the form never writes
serverVars ==
    <<places, roads, db, pc, req, place, road, data, err, res, nQueries, nFetch, interp,
      sug, prev>>

\* The delay of both debounced lookups, in milliseconds
DebounceDelay == 300

\* The characters U+10A0..U+10FF
GeorgianBlock ==
    {"U10A0", "U10A1", "U10A2", "U10A3", "U10A4", "U10A5", "U10A6", "U10A7",
     "U10A8", "U10A9", "U10AA", "U10AB", "U10AC", "U10AD", "U10AE", "U10AF",
     "U10B0", "U10B1", "U10B2", "U10B3", "U10B4", "U10B5", "U10B6", "U10B7",
     "U10B8", "U10B9", "U10BA", "U10BB", "U10BC", "U10BD", "U10BE", "U10BF",
     "U10C0", "U10C1", "U10C2", "U10C3", "U10C4", "U10C5", "U10C6", "U10C7",
     "U10C8", "U10C9", "U10CA", "U10CB", "U10CC", "U10CD", "U10CE", "U10CF",
     "U10D0", "U10D1", "U10D2", "U10D3", "U10D4", "U10D5", "U10D6", "U10D7",
     "U10D8", "U10D9", "U10DA", "U10DB", "U10DC", "U10DD", "U10DE", "U10DF",
     "U10E0", "U10E1", "U10E2", "U10E3", "U10E4", "U10E5", "U10E6", "U10E7",
     "U10E8", "U10E9", "U10EA", "U10EB", "U10EC", "U10ED", "U10EE", "U10EF",
     "U10F0", "U10F1", "U10F2", "U10F3", "U10F4", "U10F5", "U10F6", "U10F7",
     "U10F8", "U10F9", "U10FA", "U10FB", "U10FC", "U10FD", "U10FE", "U10FF"}

\* c === "საქართველო" || c.toLowerCase() === "georgia"
isGeorgiaCountry(c) == c = saqartveloKa \/ toLowerCase(c) = georgia

\* The characters \s . , ' -
IsScriptMark(c) == IsSpace(c) \/ c \in {".", ",", "'", "-"}

\* /^[\u10A0-\u10FF\s.,'-]+$/i.test(text)
isGeorgianScript(text) ==
    /\ Len(text) > 0
    /\ \A i \in DOMAIN text : text[i] \in GeorgianBlock \/ IsScriptMark(text[i])

\* /^[a-zA-Z\s.,'-]+$/i.test(text)
isLatinScript(text) ==
    /\ Len(text) > 0
    /\ \A i \in DOMAIN text :
          \/ text[i] \in Range(LatinLower) \cup Range(LatinUpper)
          \/ IsScriptMark(text[i])

\* A message the form shows: the text, and the source appended to it in
\* brackets (<<>> when there is none)
FormMessage(message, source) == [message |-> message, source |-> source]

\* A message of the form itself
OwnMessage(text) == FormMessage(Msg(text, <<>>, <<>>, <<>>), <<>>)

\* validateScript(field, value): <<>> for null, <<message>> otherwise
validateScript(country, value) ==
    IF value = <<>> THEN <<>>
    ELSE IF isGeorgiaCountry(country) /\ ~isGeorgianScript(value)
    THEN <<OwnMessage("UseGeorgianScript")>>
    ELSE IF ~isGeorgiaCountry(country) /\ ~isLatinScript(value)
    THEN <<OwnMessage("UseLatinLetters")>>
    ELSE <<>>

\* debounce(func, 300)(...args) as an effect calls it: the function was made
\* by the render the effect belongs to, so its variable timeout is still
\* unset and clearTimeout(timeout) clears nothing; setTimeout sets a timer
\* for func with the render's city and country.
debounce(kind, query, city, country, now) ==
    [kind |-> kind, query |-> query, city |-> city, country |-> country,
     due |-> now + DebounceDelay]

\* The two effects, run after the render that follows a change of state from
\* f to g: searchCities(city) when city or country changed, searchStreets(street)
\* when street, city or country changed. On mount both run.
useEffect(f, g, mount) ==
    LET cities ==
            IF mount \/ g.city # f.city \/ g.country # f.country
            THEN <<debounce("cities", g.city, <<>>, g.country, g.now)>> ELSE <<>>
        streets ==
            IF mount \/ g.street # f.street \/ g.city # f.city \/ g.country # f.country
            THEN <<debounce("streets", g.street, g.city, g.country, g.now)>> ELSE <<>>
    IN  [g EXCEPT !.timers = @ \o cities \o streets]

\* The component's state as useState initialises it
InitialState ==
    [country |-> saqartveloKa, city |-> <<>>, street |-> <<>>, houseNumber |-> <<>>,
     citySuggestions |-> <<>>, streetSuggestions |-> <<>>, message |-> <<>>,
     loading |-> FALSE, source |-> "MongoDB", coords |-> <<>>, path |-> <<>>,
     interpolated |-> <<>>,
     now |-> 0, timers |-> <<>>, lookups |-> <<>>, validation |-> <<>>,
     sinceCountryChange |-> FALSE, nActions |-> 0]

\* The form once mounted: the first render's effects have run
FormStart == useEffect(InitialState, InitialState, TRUE)

\* A handler of the user has set the state to g: the component renders again
\* and its effects run.
Render(g) ==
    /\ form.nActions < MaxActions
    /\ form' = useEffect(form, [g EXCEPT !.nActions = @ + 1], FALSE)
    /\ UNCHANGED serverVars

\* CountrySearchSelect onChange: lines 185-196
countryOnChange(val) ==
    Render([form EXCEPT !.country = val, !.city = <<>>, !.street = <<>>,
                        !.houseNumber = <<>>, !.message = <<>>,
                        !.citySuggestions = <<>>, !.streetSuggestions = <<>>,
                        !.coords = <<>>, !.path = <<>>, !.interpolated = <<>>,
                        !.sinceCountryChange = TRUE])

\* The city input's onChange: line 203
cityOnChange(text) == Render([form EXCEPT !.city = text])

\* A click on the k-th city suggestion: lines 216-219
citySuggestionOnClick(k) ==
    /\ k \in DOMAIN form.citySuggestions
    /\ Render([form EXCEPT !.city = form.citySuggestions[k], !.citySuggestions = <<>>])

\* The street input's onChange: line 234
streetOnChange(text) == Render([form EXCEPT !.street = text])

\* A click on the k-th street suggestion: lines 248-251
streetSuggestionOnClick(k) ==
    /\ k \in DOMAIN form.streetSuggestions
    /\ Render([form EXCEPT !.street = form.streetSuggestions[k],
                           !.streetSuggestions = <<>>])

\* A character that .replace(/[^0-9a-zA-Z\/-]/g, "") keeps
IsHouseNumberChar(c) ==
    IsDigit(c) \/ c \in Range(LatinLower) \cup Range(LatinUpper) \/ c \in {"/", "-"}

\* The house number input's onChange: line 266
houseNumberOnChange(text) ==
    Render([form EXCEPT !.houseNumber = SelectSeq(text, IsHouseNumberChar)])

\* The function debounced as searchCities, called by the timer t in state f:
\* lines 65-79 up to the await. encodeURIComponent throws on a string that is
\* not well formed, which the catch block answers.
searchCities(f, t) ==
    IF Len(t.query) < 2 \/ ~isGeorgiaCountry(t.country)
    THEN [f EXCEPT !.citySuggestions = <<>>]
    ELSE IF ~IsWellFormed(t.query)
    THEN [f EXCEPT !.citySuggestions = <<>>]
    ELSE [f EXCEPT !.lookups = Append(@, [kind |-> "cities", query |-> t.query,
                                          city |-> <<>>])]

\* The function debounced as searchStreets: lines 81-95 up to the await
searchStreets(f, t) ==
    IF t.city = <<>> \/ Len(t.query) < 2 \/ ~isGeorgiaCountry(t.country)
    THEN [f EXCEPT !.streetSuggestions = <<>>]
    ELSE IF ~IsWellFormed(t.city) \/ ~IsWellFormed(t.query)
    THEN [f EXCEPT !.streetSuggestions = <<>>]
    ELSE [f EXCEPT !.lookups = Append(@, [kind |-> "streets", query |-> t.query,
                                          city |-> t.city])]

\* The oldest timer is due and calls its function: line 40
TimeoutFires ==
    /\ form.timers # <<>>
    /\ Head(form.timers).due <= form.now
    /\ LET t == Head(form.timers)
           f == [form EXCEPT !.timers = Tail(@)]
       IN  form' = IF t.kind = "cities" THEN searchCities(f, t) ELSE searchStreets(f, t)
    /\ UNCHANGED serverVars

\* The body of the response of GET /api/cities to q and country=საქართველო,
\* for a q of two characters or more
citiesResponse(q) == findCities(q)

\* The body of the response of GET /api/streets to city, q and
\* country=საქართველო, for a city and a q of two characters or more
streetsResponse(city, q) ==
    LET found == findOnePlace(city)
    IN  IF found = <<>> THEN <<>> ELSE findStreets(q, found[1])

\* The sequence s without its i-th element
RemoveAt(s, i) == [k \in 1..(Len(s) - 1) |-> IF k < i THEN s[k] ELSE s[k + 1]]

\* The i-th suggestion request settles: lines 74-78 and 90-94. When the fetch
\* is rejected, or the server answers 500 with [], the list is emptied.
LookupSettles(i, failed) ==
    /\ i \in DOMAIN form.lookups
    /\ LET l == form.lookups[i]
           f == [form EXCEPT !.lookups = IF Len(@) = 1 THEN <<>> ELSE RemoveAt(@, i)]
       IN  form' = IF l.kind = "cities"
                   THEN [f EXCEPT !.citySuggestions =
                            IF failed THEN <<>> ELSE citiesResponse(l.query)]
                   ELSE [f EXCEPT !.streetSuggestions =
                            IF failed THEN <<>> ELSE streetsResponse(l.city, l.query)]
    /\ UNCHANGED serverVars

\* handleValidate up to the await: lines 105-130. The button is disabled
\* while loading or while city or street is empty (line 280).
handleValidate ==
    /\ form.nActions < MaxActions
    /\ ~form.loading /\ form.city # <<>> /\ form.street # <<>>
    /\ LET cityError == validateScript(form.country, form.city)
           streetError == validateScript(form.country, form.street)
           body == [country |-> form.country, city |-> form.city, street |-> form.street,
                    houseNumber |-> IF form.houseNumber = <<>> THEN Undefined
                                    ELSE form.houseNumber]
           f == [form EXCEPT !.nActions = @ + 1, !.sinceCountryChange = FALSE]
       IN  form' = IF cityError # <<>> \/ streetError # <<>>
                   THEN [f EXCEPT !.message = IF cityError # <<>> THEN cityError
                                              ELSE streetError]
                   ELSE IF form.city = <<>> \/ form.street = <<>>
                   THEN [f EXCEPT !.message = <<OwnMessage("FillCityAndStreet")>>]
                   ELSE [f EXCEPT !.loading = TRUE,
                                  !.message = <<OwnMessage("InProgress")>>,
                                  !.coords = <<>>, !.path = <<>>, !.interpolated = <<>>,
                                  !.validation = <<body>>]
    /\ UNCHANGED serverVars

\* handleValidate after the await: lines 131-146. rejected: fetch or
\* res.json() rejects; otherwise reply is the body of the server's response.
ValidateSettles(reply, rejected) ==
    /\ form.validation # <<>>
    /\ LET f == [form EXCEPT !.loading = FALSE, !.validation = <<>>]
           shown == <<FormMessage(reply.message, reply.source)>>
       IN  form' = IF rejected
                   THEN [f EXCEPT !.message = <<OwnMessage("ConnectionError")>>]
                   ELSE IF reply.success
                   THEN [f EXCEPT !.message = shown,
                                  !.coords = reply.coords,
                                  !.source = IF reply.source = <<>> THEN "Google"
                                             ELSE reply.source[1],
                                  !.path = IF reply.source = <<"MongoDB">> THEN reply.path
                                           ELSE <<>>,
                                  !.interpolated = reply.interpolated]
                   ELSE [f EXCEPT !.message = shown]
    /\ UNCHANGED serverVars

\* message.includes("ვალიდურია"): the two messages of the server with that word
includesValid(m) == m.message.text \in {"AddressValid", "AddressValidGoogle"}

\* const finalCoords = interpolated || coords
finalCoords(f) == IF f.interpolated # <<>> THEN f.interpolated ELSE f.coords

\* The condition under which MapView is rendered: line 318
MapShown ==
    form.message # <<>> /\ includesValid(form.message[1]) /\ finalCoords(form) # <<>>

\* Time passes; a timer that is due fires before it does.
Tick ==
    /\ form.now < MaxTicks * TickMs
    /\ IF form.timers = <<>> THEN TRUE ELSE Head(form.timers).due > form.now
    /\ form' = [form EXCEPT !.now = @ + TickMs]
    /\ UNCHANGED serverVars

-----------------------------------------------------------------------------
(* The dataset and the requests explored *)

Countries ==
    {Undefined, <<>>,
     <<"G","e","o","r","g","i","a">>,
     <<" ","g","e","o","r","g","i","a"," ">>,
     <<"G","E","O",".","R","G","I","A">>,
     <<"S","a","k","a","r","t","v","e","l","o">>,
     saqartveloKa,
     <<"g","e","o","r","g","i","a","n">>,
     <<"U10E1","U10D0","U10E5">>,
     <<"F","r","a","n","c","e">>}

Cities == {Undefined, <<>>, <<"a","b">>, <<"C","D">>, <<"a",".">>, <<"z","z">>}

Streets == {Undefined, <<>>, <<"r","u">>, <<"R",".">>, <<"e","m">>, <<"p","t">>, <<"x","x">>}

HouseNumbers ==
    {Undefined, <<>>, <<"0">>, <<"x">>, <<"5","0","0">>, <<"1","0","0","0">>,
     <<"2","0","0","0">>, <<"1","a","2">>}

Bodies == [country : Countries, city : Cities, street : Streets, houseNumber : HouseNumbers]

SamplePlaces ==
    <<[id |-> 1, name |-> <<"A","b">>, loc |-> PtA],
      [id |-> 2, name |-> <<"C","d">>, loc |-> PtB]>>

\* Distances (metres) of the last road from the first place
NearSamples == {0, 30000, 30001}

\* Two roads of one name (up to case) at different distances, a road without
\* points, and a road 40 km from the second place and d metres from the first.
SampleRoads(d) ==
    <<[name |-> <<"R","u">>, path |-> <<<<PtA, PtB>>>>, near |-> <<1000, 40000>>],
      [name |-> <<"R","U">>, path |-> <<<<PtB, Pole>>, <<PtA>>>>, near |-> <<29000, 500>>],
      [name |-> <<"E","m">>, path |-> <<>>, near |-> <<100, 100>>],
      [name |-> <<"P","t">>, path |-> <<<<Pole>>>>, near |-> <<d, 40000>>]>>

\* The polylines of at most k points
Lines(k) == UNION {[1..n -> Points] : n \in 0..k}

\* The geometries of exactly m polylines and at most k points in all
RECURSIVE PathsOf(_, _)
PathsOf(m, k) ==
    IF m = 0 THEN {<<>>}
    ELSE UNION {{<<line>> \o rest : rest \in PathsOf(m - 1, k - Len(line))} : line \in Lines(k)}

Paths == UNION {PathsOf(m, MaxPathPts) : m \in 0..MaxLines}

-----------------------------------------------------------------------------
(* Specifications *)

Init ==
    /\ places = SamplePlaces
    /\ \E d \in NearSamples : roads = SampleRoads(d)
    /\ db = "undefined"
    /\ pc = "Idle"
    /\ req = <<>>
    /\ place = <<>>
    /\ road = <<>>
    /\ data = <<>>
    /\ err = FALSE
    /\ res = <<>>
    /\ nQueries = 0
    /\ nFetch = 0
    /\ interp = <<>>
    /\ sug = SugIdle
    /\ prev = <<>>
    /\ form = FormStart

Request == pc = "Idle" /\ \E body \in Bodies : Receive(body)

Next == ConnectDB \/ Request \/ PlaceReply \/ RoadReply \/ ProviderReply \/ Finish

Spec == Init /\ [][Next]_vars

\* The same handler on every geometry of the bounds: one road, near the
\* first place, and the requests for it, with every house number.
InitGeom ==
    /\ places = SamplePlaces
    /\ \E path \in Paths :
          roads = <<[name |-> <<"R","u">>, path |-> path, near |-> <<1000, 1000>>]>>
    /\ db = "connected"
    /\ pc = "Idle"
    /\ req = <<>>
    /\ place = <<>>
    /\ road = <<>>
    /\ data = <<>>
    /\ err = FALSE
    /\ res = <<>>
    /\ nQueries = 0
    /\ nFetch = 0
    /\ interp = <<>>
    /\ sug = SugIdle
    /\ prev = <<>>
    /\ form = FormStart

RequestGeom ==
    pc = "Idle" /\ \E h \in HouseNumbers :
        Receive([country |-> georgia, city |-> <<"a","b">>, street |-> <<"r","u">>,
                 houseNumber |-> h])

\* The request bodies JSON can carry: fields that are no strings, and strings
\* that are not well formed.
AnyCountries ==
    {Undefined, NotAString, georgia, <<"g","e","o","r","g","i","a", LoneSurrogate>>,
     <<"F","r","a","n","c","e">>}
AnyCities == {<<>>, NotAString, <<"a","b">>, <<"z","z">>}
AnyStreets == {NotAString, <<"r","u">>, <<"r","u", LoneSurrogate>>, <<"x","x">>}
AnyHouseNumbers == {Undefined, NotAString, <<"x">>, <<"5","0","0">>}

AnyBodies ==
    [country : AnyCountries, city : AnyCities, street : AnyStreets,
     houseNumber : AnyHouseNumbers]

RequestAny == pc = "Idle" /\ \E body \in AnyBodies : Receive(body)

NextAny == ConnectDB \/ RequestAny \/ PlaceReply \/ RoadReply \/ ProviderReply \/ Finish

SpecAny == Init /\ [][NextAny]_vars

\* A dataset for the suggestions: more places of one prefix and more roads
\* of one stem within 30 km than a response may hold, roads farther from the
\* place the later they come in natural order, a name that holds the prefix
\* elsewhere, and names with a character that is special in a pattern.
SuggestPlaces ==
    [i \in 1..NumPlaces |-> [id |-> i, name |-> <<"A", "b", LatinLower[i]>>, loc |-> PtA]]
    \o <<[id |-> NumPlaces + 1, name |-> <<"C", "a", "b">>, loc |-> PtB]>>

\* The distances of a road: d to each place of the prefix, e to the last place
NearAll(d, e) == [i \in 1..(NumPlaces + 1) |-> IF i <= NumPlaces THEN d ELSE e]

SuggestRoads ==
    [j \in 1..NumRoads |->
        [name |-> <<"R", "u", LatinLower[j]>>, path |-> <<<<PtA, PtB>>>>,
         near |-> NearAll(30000 - 100 * (NumRoads - j), 40000)]]
    \o <<[name |-> <<"T", "r", ".", "x">>, path |-> <<<<PtB>>>>, near |-> NearAll(100, 100)],
         [name |-> <<"T", "r", "u", "x">>, path |-> <<<<PtB, Pole>>>>,
          near |-> NearAll(30001, 200)]>>

SuggestQs ==
    {Undefined, <<>>, <<"a">>, <<"a","b">>, <<"R","U">>, <<"r",".">>, <<"u","x">>,
     NotAString}
SuggestCountries == {Undefined, georgia, <<"F","r","a","n","c","e">>}
SuggestCityInputs == {Undefined, <<"a","b","a">>, <<"C","A","B">>, <<"z","z">>, NotAString}

\* The requests for validation of a city and a street of the dataset
SuggestedBodies ==
    [country : {georgia}, city : {<<"a","b","a">>, <<"C","A","B">>},
     street : {SuggestRoads[j].name : j \in DOMAIN SuggestRoads}, houseNumber : {Undefined}]

InitSuggest ==
    /\ places = SuggestPlaces
    /\ roads = SuggestRoads
    /\ db = "undefined"
    /\ pc = "Idle"
    /\ req = <<>>
    /\ place = <<>>
    /\ road = <<>>
    /\ data = <<>>
    /\ err = FALSE
    /\ res = <<>>
    /\ nQueries = 0
    /\ nFetch = 0
    /\ interp = <<>>
    /\ sug = SugIdle
    /\ prev = <<>>
    /\ form = FormStart

RequestSuggested == pc = "Idle" /\ \E body \in SuggestedBodies : Receive(body)

CitiesRequest ==
    sug.pc = "Idle" /\ \E q \in SuggestQs, country \in SuggestCountries :
        SuggestCities(q, country)

StreetsRequest ==
    sug.pc = "Idle" /\ \E city \in SuggestCityInputs, q \in SuggestQs,
                          country \in SuggestCountries :
        SuggestStreets(city, q, country)

\* The three handlers, running concurrently
NextSuggest ==
    \/ ConnectDB
    \/ RequestSuggested \/ PlaceReply \/ RoadReply \/ Finish
    \/ CitiesRequest \/ CitiesReply
    \/ StreetsRequest \/ StreetsPlaceReply \/ StreetsReply
    \/ SuggestFinish

SpecSuggest == InitSuggest /\ [][NextSuggest]_vars

\* Requests that are repeated, with other requests between them
RepeatBodies ==
    {[country |-> georgia, city |-> <<"a","b">>, street |-> <<"r","u">>,
      houseNumber |-> <<"5","0","0">>],
     [country |-> georgia, city |-> <<"z","z">>, street |-> <<"r","u">>,
      houseNumber |-> Undefined],
     [country |-> georgia, city |-> <<"a","b">>, street |-> <<>>,
      houseNumber |-> Undefined],
     [country |-> <<"F","r","a","n","c","e">>, city |-> <<"a","b">>, street |-> <<"r","u">>,
      houseNumber |-> Undefined]}

RequestRepeat == pc = "Idle" /\ \E body \in RepeatBodies : Receive(body)

NextRepeat ==
    ConnectDB \/ RequestRepeat \/ PlaceReply \/ RoadReply \/ ProviderReply \/ Finish
    \/ Remember

SpecRepeat == Init /\ [][NextRepeat]_vars

\* The server with a dataset that may be unreachable when it starts
NextStartup ==
    ConnectDB \/ ConnectRejected \/ Request \/ PlaceReply \/ RoadReply \/ ProviderReply
    \/ Finish

SpecStartup == Init /\ [][NextStartup]_vars

NextGeom == RequestGeom \/ PlaceReply \/ RoadReply \/ Finish

SpecGeom == InitGeom /\ [][NextGeom]_vars

\* Two cities whose names share their first two letters, and the roads near them
FormPlaces ==
    <<[id |-> 1, name |-> <<"U10D7","U10D1","U10D0">>, loc |-> PtA],
      [id |-> 2, name |-> <<"U10D7","U10D1","U10D8">>, loc |-> PtB]>>

FormRoads ==
    <<[name |-> <<"U10E0","U10E3","U10D0">>, path |-> <<<<PtA, PtB>>>>, near |-> <<1000, 500>>],
      [name |-> <<"U10E0","U10E3","U10D8">>, path |-> <<<<PtB, Pole>>>>, near |-> <<40000, 900>>]>>

FormCountries == {saqartveloKa, <<"F","r","a","n","c","e">>}

CityTexts == {<<>>, <<"U10D7","U10D1">>, <<"U10D7","U10D1","U10D8">>, <<"a","b">>}

StreetTexts == {<<"U10E0","U10E3">>, <<"r","u">>}

HouseNumberTexts == {<<"5"," ">>}

\* The bodies with which POST /api/validate-address can answer the body sent:
\* for Georgia the city is not found or the first road is, for another
\* country the provider finds nothing or finds the address.
ValidateReplies(body) ==
    IF isGeorgia(body.country)
    THEN {CityNotFoundResponse(body.city)[1].body,
          RoadFoundResponse(roads[1], body.city, body.street, body.houseNumber)[1].body}
    ELSE {GoogleNotFoundResponse[1].body, GoogleSuccessResponse(GoogleResult)[1].body}

InitForm ==
    /\ places = FormPlaces
    /\ roads = FormRoads
    /\ db = "connected"
    /\ pc = "Idle"
    /\ req = <<>>
    /\ place = <<>>
    /\ road = <<>>
    /\ data = <<>>
    /\ err = FALSE
    /\ res = <<>>
    /\ nQueries = 0
    /\ nFetch = 0
    /\ interp = <<>>
    /\ sug = SugIdle
    /\ prev = <<>>
    /\ form = FormStart

ChangeCountry ==
    \E val \in FormCountries : countryOnChange(val)

ChangeCity ==
    \E text \in CityTexts : cityOnChange(text)

PickCity ==
    \E k \in DOMAIN form.citySuggestions : citySuggestionOnClick(k)

ChangeStreet ==
    \E text \in StreetTexts : streetOnChange(text)

PickStreet ==
    \E k \in DOMAIN form.streetSuggestions : streetSuggestionOnClick(k)

ChangeHouseNumber ==
    \E text \in HouseNumberTexts : houseNumberOnChange(text)

LookupReply ==
    \E i \in DOMAIN form.lookups, failed \in BOOLEAN : LookupSettles(i, failed)

ValidateReply ==
    /\ form.validation # <<>>
    /\ \E reply \in ValidateReplies(form.validation[1]), rejected \in BOOLEAN :
          ValidateSettles(reply, rejected)

NextForm ==
    \/ ChangeCountry \/ ChangeCity \/ PickCity \/ ChangeStreet \/ PickStreet
    \/ ChangeHouseNumber \/ handleValidate
    \/ TimeoutFires \/ LookupReply \/ ValidateReply \/ Tick

SpecForm == InitForm /\ [][NextForm]_vars

-----------------------------------------------------------------------------
(* Properties *)

\* Two names equal up to the case of their letters
SameName(a, b) ==
    Len(a) = Len(b) /\ \A i \in DOMAIN a : LowerChar(a[i]) = LowerChar(b[i])

\* A country that is one of the accepted spellings once lowercased and
\* stripped of every character outside a-z, 0-9 and U+10D0..U+10F0
AcceptedCountry(country) ==
    SelectSeq([i \in DOMAIN country |-> LowerChar(country[i])], InNormalizeClass)
        \in {saqartveloKa, georgia, sakartvelo}

HasAllFields(body) == ~Falsy(body.country) /\ ~Falsy(body.city) /\ ~Falsy(body.street)

MongoTexts == {"CityNotFound", "StreetNotWithin30km", "AddressValid", "MongoDBError"}
GoogleTexts == {"AddressNotFoundGoogle", "AddressValidGoogle", "GoogleAPIError"}

\* The request is on the local-dataset branch, or on the provider branch
OnLocalPath ==
    \/ pc \in {"AwaitPlace", "AwaitRoad"}
    \/ pc = "Done" /\ res[1].body.message.text \in MongoTexts
OnRemotePath ==
    \/ pc = "AwaitFetch"
    \/ pc = "Done" /\ res[1].body.message.text \in GoogleTexts

\* C1: a request whose country, city or street is empty or missing is
\* answered at once with success = false (all fields are required), and
\* no dataset query and no provider call is made for it.
C1_MissingField ==
    (req # <<>> /\ (Falsy(req[1].country) \/ Falsy(req[1].city) \/ Falsy(req[1].street)))
    => /\ pc = "Done"
       /\ res[1].body.success = FALSE
       /\ res[1].body.message.text = "AllFieldsRequired"
       /\ nQueries = 0
       /\ nFetch = 0

C1_Witness ==
    /\ pc = "Done"
    /\ req[1].country = saqartveloKa
    /\ req[1].city = <<"a","b">>
    /\ req[1].street = Undefined
    /\ res[1].status = 400

\* C2: a request with all fields takes the local-dataset branch exactly when
\* its country is an accepted spelling after lowercasing, trimming and
\* removing the characters outside a-z, 0-9 and the Georgian letters, and the
\* provider branch otherwise; the local branch never calls the provider and
\* the provider branch never queries the dataset.
C2_Classification ==
    (req # <<>> /\ HasAllFields(req[1]))
    => /\ OnLocalPath <=> AcceptedCountry(req[1].country)
       /\ OnRemotePath <=> ~AcceptedCountry(req[1].country)
       /\ OnLocalPath => nFetch = 0
       /\ OnRemotePath => nQueries = 0 /\ nFetch = 1

C2_Witness ==
    /\ pc = "Done"
    /\ req[1].country = <<"G","E","O",".","R","G","I","A">>
    /\ nQueries = 2
    /\ res[1].body.source = <<"MongoDB">>

\* The place query of the request was answered and no place has the name
\* of the city
CityMissing ==
    /\ pc = "Done"
    /\ HasAllFields(req[1])
    /\ AcceptedCountry(req[1].country)
    /\ ~err
    /\ \A i \in DOMAIN places : ~SameName(places[i].name, req[1].city)

\* C3 as stated: on the local branch, when no place matches the city, the
\* result has success = false, a message naming the city, and the source
\* of the local dataset.
C3_AsStated ==
    CityMissing
    => /\ res[1].body.success = FALSE
       /\ res[1].body.message.text = "CityNotFound"
       /\ res[1].body.message.city = req[1].city
       /\ res[1].body.source = <<"MongoDB">>

\* C3 as amended: on the local branch, when no place matches the city, the
\* result has success = false and a message naming the city, and carries no
\* source (nor coordinates); only the place query was made.
C3_CityNotFound ==
    CityMissing
    => /\ res[1].body.success = FALSE
       /\ res[1].body.message.text = "CityNotFound"
       /\ res[1].body.message.city = req[1].city
       /\ res[1].body.source = <<>>
       /\ res[1].body.coords = <<>>
       /\ nQueries = 1
       /\ nFetch = 0

C3_Witness ==
    /\ pc = "Done"
    /\ req[1].country = saqartveloKa
    /\ req[1].city = <<"z","z">>
    /\ res[1].body.message.text = "CityNotFound"

\* The provider answered without results
NoResults ==
    /\ pc = "Done"
    /\ data # <<>>
    /\ (data[1].status # "OK" \/ data[1].results = <<>>)

\* C4 as stated: on the provider branch, when the provider reports no
\* results, the result has success = false and the source of the provider.
C4_AsStated ==
    NoResults
    => /\ res[1].body.success = FALSE
       /\ res[1].body.source = <<"Google">>

\* C4 as amended: on the provider branch, when the provider reports no
\* results (a status other than OK, or an empty result list), the result has
\* success = false with the provider's not-found message, and carries no
\* source.
C4_NoResults ==
    NoResults
    => /\ res[1].body.success = FALSE
       /\ res[1].body.message.text = "AddressNotFoundGoogle"
       /\ res[1].body.source = <<>>
       /\ res[1].body.coords = <<>>
       /\ nQueries = 0

C4_Witness ==
    /\ pc = "Done"
    /\ data # <<>>
    /\ data[1].status = "REQUEST_DENIED"
    /\ data[1].results # <<>>
    /\ res[1].body.success = FALSE

\* The roads of the street's name within 30,000 m of the place found
RoadsInReach ==
    {i \in DOMAIN roads :
        SameName(roads[i].name, req[1].street) /\ roads[i].near[place[1].id] <= 30000}

\* C5: the road matched has the street's name and lies within 30,000 m of
\* the place found; when no road does (also when one of that name lies
\* farther away) the result is success = false with the message that the
\* street is not within 30 km of the city.
C5_Proximity ==
    (pc = "Done" /\ place # <<>> /\ ~err)
    => /\ road # <<>> => \E i \in RoadsInReach : roads[i] = road[1]
       /\ RoadsInReach = {} =>
             /\ road = <<>>
             /\ res[1].body.success = FALSE
             /\ res[1].body.message.text = "StreetNotWithin30km"
             /\ res[1].body.message.street = req[1].street
             /\ res[1].body.message.city = req[1].city
       /\ RoadsInReach # {} => road # <<>>

\* The street exists, 40 km from the city
C5_Witness ==
    /\ pc = "Done"
    /\ req[1].city = <<"C","D">>
    /\ req[1].street = <<"p","t">>
    /\ \E i \in DOMAIN roads : roads[i].name = <<"P","t">> /\ roads[i].near[2] = 40000
    /\ res[1].body.message.text = "StreetNotWithin30km"


\* A road was found for the request
RoadFound == pc = "Done" /\ road # <<>>

\* C6 as stated: when the road found has no point at all, the result is
\* success = false with the message that the coordinates could not be
\* determined.
C6_AsStated ==
    (RoadFound /\ FlatPoints(road[1].path) = <<>>)
    => /\ res[1].body.success = FALSE
       /\ res[1].body.message.text = "CoordinatesNotFound"

\* C7 as stated: with a house number that parses to 0 or to no number,
\* interpolation reports not-found (if it is called at all) for every
\* geometry, and the result's coordinate is the centroid.
C7_AsStated ==
    (/\ RoadFound
     /\ ~Falsy(req[1].houseNumber)
     /\ parseHouseNumber(req[1].houseNumber) \in {NaN, Num(0)})
    => /\ interp # <<>> => interp[1].ret = Null
       /\ res[1].body.coords = <<centroid(road[1].path)>>

\* interpolateHouseNumber was called on a geometry of non-zero length
CalledOnLength ==
    interp # <<>> /\ SumDist(Segments(interp[1].path)) > 0

FinalPolyline(path) == path[Len(path)]

\* C8 as stated: on a geometry of non-zero length (whose final polyline has
\* a point), a house number of 1000 or more gives exactly the final point of
\* the final polyline.
C8_AsStated ==
    (/\ CalledOnLength
     /\ interp[1].houseNumber >= 1000
     /\ FinalPolyline(interp[1].path) # <<>>)
    => LET last == FinalPolyline(interp[1].path) IN
       interp[1].ret = PointAt(Num(last[Len(last)][2]), Num(last[Len(last)][1]))

\* The last segment of non-zero length
LastSegmentOfLength(segments) ==
    segments[CHOOSE i \in DOMAIN segments :
                /\ segments[i].dist > 0
                /\ \A j \in DOMAIN segments : j > i => segments[j].dist = 0]

\* C8 as amended: on a geometry of non-zero length, a house number above
\* 1000 gives exactly the final point of the final polyline (a TypeError is
\* thrown when that polyline has no point); the house number 1000 gives the
\* end point of the last segment of non-zero length, which is another point
\* when a polyline without length follows that segment.
C8_EndOfRoad ==
    (CalledOnLength /\ interp[1].houseNumber >= 1000)
    => LET last == FinalPolyline(interp[1].path)
           seg == LastSegmentOfLength(Segments(interp[1].path))
       IN  IF interp[1].houseNumber > 1000
           THEN IF last = <<>> THEN interp[1].ret = Thrown
                ELSE interp[1].ret =
                        PointAt(Num(last[Len(last)][2]), Num(last[Len(last)][1]))
           ELSE interp[1].ret = PointAt(Num(seg.p2[2]), Num(seg.p2[1]))

\* House number 1000 on two polylines, the second a single point: the
\* result is the end of the first
C8_Witness ==
    /\ interp # <<>>
    /\ interp[1].path = <<<<PtA, PtB>>, <<Pole>>>>
    /\ interp[1].houseNumber = 1000
    /\ interp[1].ret = PointAt(Num(0), Num(2))

\* The sum of the lengths of the first i segments
LengthUpTo(segments, i) == SumDist(SubSeq(segments, 1, i))

\* C9: on a geometry of non-zero length L and for a house number h of
\* 1..1000, the result lies on the first segment, in the order of the
\* polylines and of their points, whose cumulative end reaches h/1000 * L,
\* at the ratio (h/1000 * L - the segment's start) / the segment's length
\* between its end points, on each axis; a single segment with h = 500
\* gives its midpoint.
C9_Interpolation ==
    (CalledOnLength /\ interp[1].houseNumber \in 1..1000)
    => LET segments == Segments(interp[1].path)
           target == interp[1].houseNumber * SumDist(segments)   \* times 1000
           k == CHOOSE i \in DOMAIN segments :
                   /\ 1000 * LengthUpTo(segments, i) >= target
                   /\ \A j \in 1..(i - 1) : 1000 * LengthUpTo(segments, j) < target
           seg == segments[k]
           num == target - 1000 * LengthUpTo(segments, k - 1)
           den == 1000 * seg.dist
       IN  /\ 0 < num /\ num <= den
           /\ interp[1].ret =
                 PointAt(Div(seg.p1[2] * (den - num) + seg.p2[2] * num, den),
                         Div(seg.p1[1] * (den - num) + seg.p2[1] * num, den))
           /\ (Len(segments) = 1 /\ interp[1].houseNumber = 500)
              => interp[1].ret = PointAt(Div(seg.p1[2] + seg.p2[2], 2),
                                         Div(seg.p1[1] + seg.p2[1], 2))

\* House number 500 on two segments of two polylines, of lengths 2 and 3:
\* a quarter of the way along the second
C9_Witness ==
    /\ interp # <<>>
    /\ interp[1].path = <<<<PtA, PtB>>, <<PtA, Pole>>>>
    /\ interp[1].houseNumber = 500
    /\ interp[1].ret = PointAt(Div(1, 2), Num(0))

\* C10: when the house number is omitted and the road found has a point,
\* the result is success = true, its coordinate is the mean of all points
\* of all polylines on each axis (the point itself when there is one only),
\* and it has no interpolated point.
C10_Centroid ==
    (RoadFound /\ Falsy(req[1].houseNumber) /\ FlatPoints(road[1].path) # <<>>)
    => LET points == FlatPoints(road[1].path)
           c == res[1].body.coords[1]
       IN  /\ res[1].body.success
           /\ interp = <<>>
           /\ res[1].body.interpolated = <<>>
           /\ c.lat.d > 0 /\ c.lat.n * Len(points) = c.lat.d * SumAxis(points, 2)
           /\ c.lng.d > 0 /\ c.lng.n * Len(points) = c.lng.d * SumAxis(points, 1)
           /\ Len(points) = 1 => c = [lat |-> Num(points[1][2]), lng |-> Num(points[1][1])]

C10_Witness ==
    /\ RoadFound
    /\ req[1].houseNumber = Undefined
    /\ road[1].path = <<<<PtA, PtB>>, <<Pole>>>>
    /\ res[1].body.coords = <<[lat |-> Num(1), lng |-> Div(2, 3)]>>
    /\ res[1].body.interpolated = <<>>

\* interpolateHouseNumber was called with a positive number and returned a
\* point
InterpolationSucceeded ==
    interp # <<>> /\ interp[1].houseNumber > 0 /\ interp[1].ret.tag = "point"

\* C11 as stated: in a local-dataset result (for a road with a point and a
\* house number that does not parse to 0), the interpolated point is
\* populated exactly when a house number was given, parsed to a positive
\* integer and the interpolation succeeded, and then the coordinate is that
\* point; otherwise the coordinate is the centroid and the interpolated point
\* is absent.
C11_AsStated ==
    (/\ RoadFound
     /\ res[1].body.success
     /\ FlatPoints(road[1].path) # <<>>
     /\ (Falsy(req[1].houseNumber) \/ parseHouseNumber(req[1].houseNumber) # Num(0)))
    => IF InterpolationSucceeded
       THEN /\ res[1].body.interpolated =
                  <<[lat |-> interp[1].ret.lat, lng |-> interp[1].ret.lng]>>
            /\ res[1].body.coords = res[1].body.interpolated
       ELSE /\ res[1].body.coords = <<centroid(road[1].path)>>
            /\ res[1].body.interpolated = <<>>

\* C12 as stated: when the dataset or the provider is unreachable, or a
\* call to it throws, at any point of a request, the request still ends in a
\* response: a request without a response is awaiting a call, and a fault
\* caught gives success = false, no coordinate, and the generic error message
\* of the source of its branch.
C12_AsStated ==
    /\ (req # <<>> /\ res = <<>>) => pc \in {"AwaitPlace", "AwaitRoad", "AwaitFetch"}
    /\ err => /\ res # <<>>
              /\ res[1].status = 500
              /\ res[1].body.success = FALSE
              /\ res[1].body.coords = <<>>
              /\ res[1].body.message.text =
                    (IF AcceptedCountry(req[1].country) THEN "MongoDBError"
                     ELSE "GoogleAPIError")

\* C13 as stated: every request received, whatever its body, is being
\* resolved (an awaited call is pending) or has ended in exactly one
\* response of the handler.
C13_AsStated ==
    req # <<>> => \/ pc \in {"AwaitPlace", "AwaitRoad", "AwaitFetch"} /\ res = <<>>
                  \/ pc = "Done" /\ res # <<>>

\* The road found has a polyline without points, and a point elsewhere
HasEmptyPolyline ==
    /\ RoadFound
    /\ \E i \in DOMAIN road[1].path : road[1].path[i] = <<>>
    /\ FlatPoints(road[1].path) # <<>>

\* C14 as stated: a polyline without points in the road's geometry, at any
\* position (the last included), is skipped: for every house number neither
\* interpolateHouseNumber nor the centroid throws, and the request succeeds.
C14_AsStated ==
    HasEmptyPolyline
    => /\ interp # <<>> => interp[1].ret.tag # "TypeError"
       /\ ~err
       /\ res[1].body.success

\* C18: when the geometry of the road found has a point and a total length
\* of zero (one point only, or all points coincide) and a house number is
\* given, interpolateHouseNumber, whenever it is called, returns null, and the
\* result is success = true with the centroid, a finite point (the point
\* itself when all points coincide), as its coordinate.
C18_ZeroLength ==
    (/\ RoadFound
     /\ ~Falsy(req[1].houseNumber)
     /\ FlatPoints(road[1].path) # <<>>
     /\ SumDist(Segments(road[1].path)) = 0)
    => /\ interp # <<>> => interp[1].ret = Null
       /\ IsFinite(parseHouseNumber(req[1].houseNumber)) => interp # <<>>
       /\ ~err
       /\ res[1].body.success
       /\ res[1].body.coords = <<centroid(road[1].path)>>
       /\ IsFinite(res[1].body.coords[1].lat) /\ IsFinite(res[1].body.coords[1].lng)
       /\ LET points == FlatPoints(road[1].path)
          IN  (\A i \in DOMAIN points : points[i] = points[1])
              => res[1].body.coords = <<[lat |-> Num(points[1][2]), lng |-> Num(points[1][1])]>>

\* House number 500 on two coinciding points and a polyline without points
C18_Witness ==
    /\ RoadFound
    /\ road[1].path = <<<<PtB, PtB>>, <<>>>>
    /\ interp # <<>>
    /\ interp[1].houseNumber = 500
    /\ interp[1].ret = Null
    /\ res[1].body.coords = <<[lat |-> Num(0), lng |-> Num(2)]>>

SetMax(S) == CHOOSE x \in S : \A y \in S : y <= x

\* The number x lies between the least and the greatest value of the points
\* on the axis
WithinAxis(x, points, axis) ==
    LET values == {points[i][axis] : i \in DOMAIN points}
    IN  /\ x.d > 0
        /\ SetMin(values) * x.d <= x.n
        /\ x.n <= SetMax(values) * x.d

\* C19 as stated: a result with success = true has a coordinate whose
\* latitude and longitude are finite numbers, and on the local path (for a
\* road with a point) the coordinate lies within the bounding box of the
\* road's points.
C19_AsStated ==
    (pc = "Done" /\ res[1].body.success /\ FlatPoints(road[1].path) # <<>>)
    => /\ res[1].body.coords # <<>>
       /\ IsFinite(res[1].body.coords[1].lat)
       /\ IsFinite(res[1].body.coords[1].lng)
       /\ WithinAxis(res[1].body.coords[1].lat, FlatPoints(road[1].path), 2)
       /\ WithinAxis(res[1].body.coords[1].lng, FlatPoints(road[1].path), 1)

\* The names of the response of the suggestion handler
SuggestedNames == sug.res[1].body

\* C15: the cities and the streets handler each respond with at most 10
\* names, each the name of a place (of a road); when the query is empty or
\* shorter than 2 characters, or the country is not an accepted spelling of
\* the local-dataset country, the response is the empty list and no dataset
\* query is made.
C15_Suggestions ==
    sug.pc = "Done"
    => /\ Len(SuggestedNames) <= 10
       /\ \A k \in DOMAIN SuggestedNames :
             IF sug.handler = "cities"
             THEN \E i \in DOMAIN places : places[i].name = SuggestedNames[k]
             ELSE \E i \in DOMAIN roads : roads[i].name = SuggestedNames[k]
       /\ (\/ sug.q = Undefined
           \/ IsString(sug.q) /\ Len(sug.q) < 2
           \/ ~AcceptedCountry(sug.country))
          => /\ SuggestedNames = <<>>
             /\ sug.nQueries = 0

\* More than 10 roads match within 30 km, and 10 names are returned
C15_Witness ==
    /\ sug.pc = "Done"
    /\ sug.handler = "streets"
    /\ sug.q = <<"R","U">>
    /\ Len(SuggestedNames) = 10
    /\ Cardinality({i \in DOMAIN roads : roads[i].near[sug.place[1].id] <= 30000
                                         /\ SameName(SubSeq(roads[i].name, 1, 2), sug.q)}) > 10

ResolveVars == <<pc, req, place, road, data, err, res, nQueries, nFetch, interp>>

\* The response of a validation that met no fault is the one its body and
\* the dataset give
ResolveAlone ==
    (pc = "Done" /\ ~err /\ HasAllFields(req[1]) /\ AcceptedCountry(req[1].country))
    => LET pl == findOnePlace(req[1].city) IN
       IF pl = <<>> THEN res = CityNotFoundResponse(req[1].city)
       ELSE \E found \in findOneRoad(req[1].street, pl[1]) :
               IF found = <<>>
               THEN res = StreetNotNearResponse(req[1].street, req[1].city)
               ELSE res = RoadFoundResponse(found[1], req[1].city, req[1].street,
                                            req[1].houseNumber)

\* The response of a suggestion that met no fault is the one its query and
\* the dataset give
SuggestAlone ==
    (sug.pc = "Done" /\ sug.res[1].status = 200)
    => SuggestedNames =
          (IF \/ Falsy(sug.q) \/ TooShort(sug.q) \/ ~AcceptedCountry(sug.country)
              \/ (sug.handler = "streets" /\ Falsy(sug.city))
           THEN <<>>
           ELSE IF sug.handler = "cities" THEN findCities(sug.q)
           ELSE IF findOnePlace(sug.city) = <<>> THEN <<>>
           ELSE findStreets(sug.q, findOnePlace(sug.city)[1]))

\* A step of a request writes neither the dataset nor the connection, and
\* only the variables of its own handler
NoSharedWrite ==
    /\ places' = places
    /\ roads' = roads
    /\ db' # db => (db = "undefined" /\ ResolveVars' = ResolveVars /\ sug' = sug)
    /\ ResolveVars' = ResolveVars \/ sug' = sug

\* C17: in every interleaving of a validation with a cities or a streets
\* request, no step of a request writes the dataset, the connection or the
\* state of the other request, and the result of each request is the one
\* it gives when run alone.
C17_Isolation == [](ResolveAlone /\ SuggestAlone) /\ [][NoSharedWrite]_vars

\* A validation has completed while a streets request is between its two
\* queries
C17_Witness ==
    /\ pc = "Done"
    /\ res[1].body.success
    /\ sug.pc = "AwaitStreets"
    /\ sug.city = req[1].city

\* C20: for an accepted country, every name the streets handler returned
\* for a city is resolvable: a validation of that city and that name reports
\* neither that the city was not found nor that the street is not within
\* 30 km, and unless it met a fault it finds the place and a road of that
\* name and succeeds.
C20_Resolvable ==
    (/\ sug.pc = "Done"
     /\ sug.handler = "streets"
     /\ pc = "Done"
     /\ AcceptedCountry(req[1].country)
     /\ req[1].city = sug.city
     /\ \E k \in DOMAIN SuggestedNames : SuggestedNames[k] = req[1].street)
    => /\ res[1].body.message.text \notin {"CityNotFound", "StreetNotWithin30km"}
       /\ ~err => /\ place # <<>>
                  /\ road # <<>>
                  /\ SameName(road[1].name, req[1].street)
                  /\ road[1].near[place[1].id] <= 30000
                  /\ res[1].body.success

\* The farthest of the 10 roads suggested, and a name with a special
\* character, are resolved
C20_Witness ==
    /\ sug.pc = "Done"
    /\ sug.handler = "streets"
    /\ Len(SuggestedNames) = 10
    /\ pc = "Done"
    /\ req[1].city = sug.city
    /\ req[1].street = SuggestedNames[10]
    /\ res[1].body.success

\* C16 as stated: a request that repeats the body of an earlier request,
\* against the same dataset and whatever requests ran between the two, gets
\* the response the earlier one got (here for requests that did not go to
\* the provider, and when no awaited call of either request rejected).
C16_AsStated ==
    (/\ pc = "Done"
     /\ prev # <<>>
     /\ prev[1].body = req[1]
     /\ nFetch = 0
     /\ ~prev[1].faulted
     /\ ~LookupFaulted)
    => res[1] = prev[1].res

\* C21: in the address form, after the user has changed the country and until
\* handleValidate runs again, the response of a validation request sent before
\* the change is never displayed: the message, the coordinates, the path and
\* the interpolated point stay cleared, and the map is not shown.
C21_AsStated ==
    form.sinceCountryChange =>
        /\ form.message = <<>>
        /\ form.coords = <<>> /\ form.path = <<>> /\ form.interpolated = <<>>
        /\ ~MapShown

\* A lookup of city suggestions is pending: its timer is set or its request
\* is not yet answered.
CitiesPending ==
    \/ \E i \in DOMAIN form.timers : form.timers[i].kind = "cities"
    \/ \E i \in DOMAIN form.lookups : form.lookups[i].kind = "cities"

\* The lists a lookup of the current city text can end with: none is looked up
\* for a text under two characters or a country other than Georgia, and a
\* lookup that fails leaves the empty list.
LatestCities ==
    IF Len(form.city) < 2 \/ ~isGeorgiaCountry(form.country) THEN {<<>>}
    ELSE {<<>>, citiesResponse(form.city)}

\* The timers of city lookups set for a text the user typed that is no longer
\* the city text, and not yet fired
EarlierCityTimers ==
    {i \in DOMAIN form.timers :
        /\ form.timers[i].kind = "cities"
        /\ form.timers[i].query # <<>> /\ form.timers[i].query # form.city}

\* C22: in the address form, once no lookup of city suggestions is pending the
\* displayed city suggestions are those of the current city text; a change of
\* the text cancels the timer that the change before it has set, so no timer
\* is set for an earlier text.
C22_AsStated ==
    /\ ~CitiesPending => form.citySuggestions \in LatestCities
    /\ EarlierCityTimers = {}

=============================================================================
